---- MODULE Spec2Model ----
(***************************************************************************)
(* State-machine model of the two interactive view components:             *)
(*   - AnimatedSection (components/3d/AnimatedSection.tsx): the            *)
(*     viewport-triggered animator with its hasAnimated latch,             *)
(*   - EventCard3D (components/3d/EventCard3D.tsx): the flip card with     *)
(*     its particle list, timers and pointer targets.                      *)
(*                                                                         *)
(* React is modelled by what the components rely on: a hook state variable *)
(* holds the committed value, while handlers, effects and the JSX read the *)
(* values captured by the last render (the closure).  A state update made  *)
(* outside a discrete React event (observer callback, timer, animation     *)
(* frame, pointer move/enter/leave) is rendered by a later step; an update *)
(* made inside a discrete event (click, focus, blur) is rendered before    *)
(* the next event is handled.  Passive effects of AnimatedSection run in a *)
(* step of their own after the commit that scheduled them.                 *)
(***************************************************************************)
EXTENDS Integers, Sequences, FiniteSets, TLC

VARIABLES
    \* ---- AnimatedSection ----
    sectionMounted,       \* the section is mounted
    prefersReducedMotion, \* useReducedMotion(), fixed for the mount
    hasAnimated,          \* useState(false): the committed latch
    rHasAnimated,         \* hasAnimated as captured by the last render
    effectDue,            \* the observer effect is scheduled (deps changed)
    obsConnected,         \* an IntersectionObserver is observing sectionRef
    obsHasAnimated,       \* hasAnimated in the closure of that observer's callback
    observersCreated,     \* number of `new IntersectionObserver` so far
    intersecting,         \* whether the element currently intersects the viewport
    entryQueue,           \* queued IntersectionObserverEntry.isIntersecting values
    sectionRaf,           \* pending requestAnimationFrame callbacks of the section
    onStartCalls,         \* invocations of onAnimationStart
    visibleStarts,        \* invocations of controls.start('visible')
    variant,              \* variant applied to the section's motion.div
    \* ---- EventCard3D ----
    mounted,              \* the card is mounted
    title,                \* the title prop
    isFlipped,            \* useState(false)
    isFlipping,           \* useState(false)
    isFocused,            \* useState(false)
    particles,            \* useState([]): sequence of [id, x, y, vx, vy]
    particleIdRef,        \* useRef(0).current
    animationFrameRef,    \* useRef().current: last frame handle stored, 0 if none
    rafPending,           \* frame handles requested and neither run nor cancelled
    rafSeq,               \* last handle returned by requestAnimationFrame
    mouseX, mouseY,       \* useMotionValue(0) pointer targets, in hundredths
    springX, springY,     \* useSpring(mouseX), useSpring(mouseY), in hundredths
    rend,                 \* what the last render of the card captured
    burstInterval,        \* ms until the setInterval callback is due, NoTimer if none
    flipTimers,           \* ms until each pending setTimeout of handleCardClick is due
    pointerInside,        \* the pointer is over the card
    cardAnim,             \* last target given to the card's controls.start
    openedWindows,        \* window.open calls made by Register Now
    notices,              \* alert messages shown by Register Now
    registerClicks,       \* Register Now clicks handled: isFlipped at each
    propCalls,            \* calls of the onHover and onLeave props so far
    clicks,               \* clicks on the card handled (history)
    clickAges             \* ms elapsed since each click of the last 800 ms (history)

sectionVars == <<sectionMounted, prefersReducedMotion, hasAnimated, rHasAnimated, effectDue,
                 obsConnected, obsHasAnimated, observersCreated, intersecting,
                 entryQueue, sectionRaf, onStartCalls, visibleStarts, variant>>

cardVars == <<mounted, title, isFlipped, isFlipping, isFocused, particles, particleIdRef,
              animationFrameRef, rafPending, rafSeq, mouseX, mouseY, springX,
              springY, rend, burstInterval, flipTimers, pointerInside, cardAnim,
              openedWindows, notices, registerClicks, propCalls, clicks,
              clickAges>>

vars == <<sectionVars, cardVars>>

----------------------------------------------------------------------------
(* Bounds of the model *)

\* most IntersectionObserver entries queued and not yet delivered
MaxEntries == 3
\* most calls of controls.start('visible') followed in one behaviour
MaxStarts == 3
\* most IntersectionObserver constructions followed in one behaviour
MaxObservers == 3
\* most frame handles requestAnimationFrame hands out in one behaviour
MaxRafHandles == 3
\* largest value particleIdRef reaches in one behaviour
MaxParticleId == 30
\* most setTimeout callbacks of handleCardClick pending at once
MaxFlipTimers == 2
\* most clicks on Register Now followed in one behaviour
MaxRegisterClicks == 2
\* most hover-leaves followed in one behaviour
MaxLeaves == 1
\* largest smoothed pointer value followed, in hundredths
MaxSpring == 101

----------------------------------------------------------------------------
(* AnimatedSection *)

\* The state after the first render has been committed: the motion.div is
\* rendered with initial="hidden"; the observer effect has not run yet.
SectionInit ==
    /\ sectionMounted = TRUE
    /\ prefersReducedMotion \in BOOLEAN
    /\ hasAnimated = FALSE
    /\ rHasAnimated = FALSE
    /\ effectDue = TRUE
    /\ obsConnected = FALSE
    /\ obsHasAnimated = FALSE
    /\ observersCreated = 0
    /\ intersecting \in BOOLEAN
    /\ entryQueue = <<>>
    /\ sectionRaf = 0
    /\ onStartCalls = 0
    /\ visibleStarts = 0
    /\ variant = "hidden"

\* One entry of entries.forEach in the observer callback, applied to the
\* accumulated result acc = [latch, starts, rafs].  closureHasAnimated is the
\* hasAnimated the callback closed over; it does not change inside the loop.
\* (variant: setHasAnimated(entry.isIntersecting))
EntryStepMutSetsFromEntry(acc, isIntersecting, closureHasAnimated) ==
    [latch  |-> isIntersecting,
     starts |-> IF isIntersecting /\ ~closureHasAnimated
                THEN acc.starts + 1 ELSE acc.starts,
     rafs   |-> IF isIntersecting /\ ~closureHasAnimated
                THEN acc.rafs + 1 ELSE acc.rafs]

EntryStep(acc, isIntersecting, closureHasAnimated) ==
    IF isIntersecting /\ ~closureHasAnimated
    THEN [latch  |-> TRUE,             \* setHasAnimated(true)
          starts |-> acc.starts + 1,   \* onAnimationStart?.()
          rafs   |-> acc.rafs + 1]     \* requestAnimationFrame(...)
    ELSE acc

RECURSIVE ForEachEntry(_, _, _)
ForEachEntry(acc, entries, closureHasAnimated) ==
    IF entries = <<>> THEN acc
    ELSE ForEachEntry(EntryStep(acc, Head(entries), closureHasAnimated),
                      Tail(entries), closureHasAnimated)

\* The viewport intersection of the element changes (scroll in / scroll out).
\* A connected observer queues an entry for the change.
Scroll ==
    /\ intersecting' = ~intersecting
    /\ IF obsConnected
       THEN /\ Len(entryQueue) < MaxEntries
            /\ entryQueue' = Append(entryQueue, intersecting')
       ELSE UNCHANGED entryQueue
    /\ UNCHANGED <<sectionMounted, prefersReducedMotion, hasAnimated, rHasAnimated, effectDue,
                   obsConnected, obsHasAnimated, observersCreated, sectionRaf,
                   onStartCalls, visibleStarts, variant>>
    /\ UNCHANGED cardVars

\* (variant: the callback starts the transition itself instead of
\* requesting a frame for it)
ObserverCallbackMutStartsInline ==
    /\ obsConnected
    /\ entryQueue # <<>>
    /\ onStartCalls + Len(entryQueue) <= MaxStarts
    /\ LET r == ForEachEntry([latch |-> hasAnimated, starts |-> 0, rafs |-> 0],
                             entryQueue, obsHasAnimated)
       IN /\ hasAnimated' = r.latch
          /\ onStartCalls' = onStartCalls + r.starts
          /\ visibleStarts' = visibleStarts + r.rafs
          /\ variant' = IF r.rafs > 0 THEN "visible" ELSE variant
    /\ entryQueue' = <<>>
    /\ UNCHANGED <<sectionMounted, prefersReducedMotion, rHasAnimated, effectDue,
                   obsConnected, obsHasAnimated, observersCreated, intersecting,
                   sectionRaf>>
    /\ UNCHANGED cardVars

\* The observer callback is invoked with every queued entry.
ObserverCallback ==
    /\ obsConnected
    /\ entryQueue # <<>>
    /\ onStartCalls + Len(entryQueue) <= MaxStarts
    /\ LET r == ForEachEntry([latch |-> hasAnimated, starts |-> 0, rafs |-> 0],
                             entryQueue, obsHasAnimated)
       IN /\ hasAnimated' = r.latch
          /\ onStartCalls' = onStartCalls + r.starts
          /\ sectionRaf' = sectionRaf + r.rafs
    /\ entryQueue' = <<>>
    /\ UNCHANGED <<sectionMounted, prefersReducedMotion, rHasAnimated, effectDue, obsConnected,
                   obsHasAnimated, observersCreated, intersecting,
                   visibleStarts, variant>>
    /\ UNCHANGED cardVars

\* The frame callback requested by the observer callback.
SectionFrame ==
    /\ sectionRaf > 0
    /\ visibleStarts < MaxStarts
    /\ sectionRaf' = sectionRaf - 1
    /\ visibleStarts' = visibleStarts + 1    \* controls.start('visible')
    /\ variant' = IF sectionMounted THEN "visible" ELSE variant
    /\ UNCHANGED <<sectionMounted, prefersReducedMotion, hasAnimated, rHasAnimated, effectDue,
                   obsConnected, obsHasAnimated, observersCreated, intersecting,
                   entryQueue, onStartCalls>>
    /\ UNCHANGED cardVars

\* React re-renders the section after setHasAnimated changed the state;
\* hasAnimated is a dependency of the observer effect.
SectionRender ==
    /\ sectionMounted
    /\ rHasAnimated # hasAnimated
    /\ rHasAnimated' = hasAnimated
    /\ effectDue' = TRUE
    /\ UNCHANGED <<sectionMounted, prefersReducedMotion, hasAnimated, obsConnected,
                   obsHasAnimated, observersCreated, intersecting, entryQueue,
                   sectionRaf, onStartCalls, visibleStarts, variant>>
    /\ UNCHANGED cardVars

\* The parent re-renders and passes a new onAnimationStart function; the
\* callback is a dependency of the observer effect.
ParentRerender ==
    /\ sectionMounted
    /\ rHasAnimated' = hasAnimated
    /\ effectDue' = TRUE
    /\ UNCHANGED <<sectionMounted, prefersReducedMotion, hasAnimated, obsConnected,
                   obsHasAnimated, observersCreated, intersecting, entryQueue,
                   sectionRaf, onStartCalls, visibleStarts, variant>>
    /\ UNCHANGED cardVars

\* The test of the observer effect, !sectionRef.current || prefersReducedMotion;
\* the ref is never empty once the motion.div is committed.
SkipObserverMutNever == FALSE

SkipObserver == prefersReducedMotion

\* Body of the observer effect when the test holds.
EffectReduced ==
    /\ visibleStarts < MaxStarts
    /\ visibleStarts' = visibleStarts + 1    \* controls.start('visible')
    /\ variant' = "visible"
    /\ obsConnected' = FALSE
    /\ entryQueue' = <<>>
    /\ UNCHANGED <<obsHasAnimated, observersCreated>>

\* Body of the observer effect otherwise: a new observer whose callback
\* closes over the rendered hasAnimated; observe() queues the first entry.
EffectObserve ==
    /\ observersCreated < MaxObservers
    /\ observersCreated' = observersCreated + 1
    /\ obsConnected' = TRUE
    /\ obsHasAnimated' = rHasAnimated
    /\ entryQueue' = <<intersecting>>
    /\ UNCHANGED <<visibleStarts, variant>>

\* The observer effect runs: the previous run's cleanup (observer.disconnect,
\* which drops the undelivered entries), then the body.
SectionEffect ==
    /\ sectionMounted
    /\ effectDue
    /\ effectDue' = FALSE
    /\ IF SkipObserver THEN EffectReduced ELSE EffectObserve
    /\ UNCHANGED <<sectionMounted, prefersReducedMotion, hasAnimated, rHasAnimated,
                   intersecting, sectionRaf, onStartCalls>>
    /\ UNCHANGED cardVars

\* The section is removed from the tree, after the effects of its last commit
\* have run: React runs the cleanup of the observer effect's last run,
\* observer.disconnect() when that run created an observer.  The frame
\* requested by an observer callback is not cancelled.
SectionUnmount ==
    /\ sectionMounted
    /\ ~effectDue
    /\ sectionMounted' = FALSE
    /\ obsConnected' = FALSE
    /\ entryQueue' = <<>>
    /\ UNCHANGED <<prefersReducedMotion, hasAnimated, rHasAnimated, effectDue,
                   obsHasAnimated, observersCreated, intersecting, sectionRaf,
                   onStartCalls, visibleStarts, variant>>
    /\ UNCHANGED cardVars

----------------------------------------------------------------------------
(* EventCard3D: constants of the source *)

\* setTimeout(..., 800) in handleCardClick
FlipLockMs == 800
\* setInterval(..., 800) in the burst effect
BurstIntervalMs == 800
\* Array.from({ length: 3 }) in createParticleBurst
BurstSize == 3
\* .slice(-20) in createParticleBurst
ParticleLimit == 20
\* Array.from({ length: 15 }) in handleCardClick
ExplosionSize == 15

\* burstInterval when no interval is set
NoTimer == -1

\* Particle coordinates and velocities are kept in fifths of a pixel, so that
\* gravity (0.2 px per frame) is one unit.
Px(n) == 5 * n

\* The titles a card is mounted with: the four mapped ones, one that differs
\* from a mapped one only in case, and an unmapped one.
Titles == {"Brand-o-Vation", "Ventura", "The Paradox Protocol", "Capitalyze",
           "ventura", "Hackathon"}

\* Pointer samples (mouseXPercent, mouseYPercent) in hundredths, as
\* handleMouseMove computes them for a pointer inside the card.
PointerSamples == {[x |-> 60, y |-> -30]}

\* Elapsed times by which the simulated clock advances.
TimeSteps == {FlipLockMs \div 2, FlipLockMs}

\* Values the smoothed pointer values take, in hundredths: around the ends of
\* the input domain of useTransform, at the edge of the card (1.00) and past
\* it, where the underdamped spring (stiffness 300, damping 30) overshoots.
SpringValues == {-MaxSpring, -100, -51, -50, -49, -25, 0, 25, 49, 50, 51, 100,
                 MaxSpring}

\* Numbers of frames after a hover-enter burst at which a card is picked up:
\* one frame before each of the burst's three particles leaves the bounds.
AgedFrames == {49, 61, 70}

----------------------------------------------------------------------------
(* EventCard3D: pure helpers *)

\* seq.slice(-n)
SliceLast(seq, n) ==
    IF Len(seq) <= n THEN seq ELSE SubSeq(seq, Len(seq) - n + 1, Len(seq))

\* The random draws of one createParticleBurst: x = random*400,
\* y = random*300 + 100, vx = (random - 0.5)*2, vy = -random*2 - 1.
BurstDraw(i) ==
    CASE i = 1 -> [x |-> Px(0),       y |-> Px(100),     vx |-> -5, vy |-> -5]
      [] i = 2 -> [x |-> Px(200),     y |-> Px(250),     vx |-> 0,  vy |-> -10]
      [] OTHER -> [x |-> Px(400) - 1, y |-> Px(400) - 1, vx |-> 4,  vy |-> -14]

\* The random draws of one flip explosion: x = 200 + (random - 0.5)*100,
\* y = 300 + (random - 0.5)*100, vx = (random - 0.5)*8, vy = -random*6 - 3.
ExplosionDraw(i) ==
    [x  |-> Px(150) + 33 * (i - 1),
     y  |-> Px(250) + 35 * (i - 1),
     vx |-> -20 + 2 * (i - 1),
     vy |-> -15 - 2 * (i - 1)]

\* (variant: id: particleIdRef.current, the counter read and not advanced
\* per particle)
NewParticlesMutSameId(firstId) ==
    [i \in 1..BurstSize |->
        [id |-> firstId,
         x  |-> BurstDraw(i).x,  y  |-> BurstDraw(i).y,
         vx |-> BurstDraw(i).vx, vy |-> BurstDraw(i).vy]]

\* Array.from({ length: 3 }, () => ({ id: particleIdRef.current++, ... }))
NewParticles(firstId) ==
    [i \in 1..BurstSize |->
        [id |-> firstId + i - 1,
         x  |-> BurstDraw(i).x,  y  |-> BurstDraw(i).y,
         vx |-> BurstDraw(i).vx, vy |-> BurstDraw(i).vy]]

\* Array.from({ length: 15 }, () => ({ id: particleIdRef.current++, ... }))
ExplosionParticles(firstId) ==
    [i \in 1..ExplosionSize |->
        [id |-> firstId + i - 1,
         x  |-> ExplosionDraw(i).x,  y  |-> ExplosionDraw(i).y,
         vx |-> ExplosionDraw(i).vx, vy |-> ExplosionDraw(i).vy]]

\* (variant: .slice(0, 20), which keeps the oldest particles)
BurstUpdateMutKeepsOldest(prev, firstId) ==
    LET all == prev \o NewParticles(firstId)
    IN IF Len(all) <= ParticleLimit THEN all ELSE SubSeq(all, 1, ParticleLimit)

\* The updater of createParticleBurst: [...prev, ...newParticles].slice(-20)
BurstUpdate(prev, firstId) ==
    SliceLast(prev \o NewParticles(firstId), ParticleLimit)

\* The updater of handleCardClick: [...prev, ...explosionParticles]
ExplosionUpdate(prev, firstId) ==
    prev \o ExplosionParticles(firstId)

\* One particle advanced by one frame.
MoveParticle(p) ==
    [id |-> p.id, x |-> p.x + p.vx, y |-> p.y + p.vy, vx |-> p.vx, vy |-> p.vy + 1]

\* The filter of animateParticles, on the moved particle.
InBounds(p) == p.y < Px(600) /\ p.x > Px(-50) /\ p.x < Px(450)

RECURSIVE FilterInBounds(_)
FilterInBounds(seq) ==
    IF seq = <<>> THEN <<>>
    ELSE IF InBounds(Head(seq)) THEN <<Head(seq)>> \o FilterInBounds(Tail(seq))
         ELSE FilterInBounds(Tail(seq))

\* (variant: the filter is applied before the positions are updated)
FrameUpdateMutFilterFirst(prev) ==
    LET kept == FilterInBounds(prev)
    IN [i \in 1..Len(kept) |-> MoveParticle(kept[i])]

\* The updater of animateParticles: prev.map(...).filter(...)
FrameUpdate(prev) ==
    FilterInBounds([i \in 1..Len(prev) |-> MoveParticle(prev[i])])

\* The particle list k frames later; an empty list stays empty.
RECURSIVE FramesLater(_, _)
FramesLater(seq, k) ==
    IF k = 0 THEN seq
    ELSE LET next == FrameUpdate(seq)
         IN IF Len(next) = 0 THEN <<>> ELSE FramesLater(next, k - 1)

\* (variant: the interpolation is not clamped to its input domain)
TransformMutNoClamp(v, inLo, inHi, outLo, outHi) ==
    outLo + ((outHi - outLo) * (v - inLo)) \div (inHi - inLo)

\* useTransform(value, [inLo, inHi], [outLo, outHi]) at value v: framer-motion
\* interpolates linearly and, with its default clamp: true, holds the input
\* inside [inLo, inHi] first.
Transform(v, inLo, inHi, outLo, outHi) ==
    LET c == IF v < inLo THEN inLo ELSE IF v > inHi THEN inHi ELSE v
    IN outLo + ((outHi - outLo) * (c - inLo)) \div (inHi - inLo)

\* rotateX = useTransform(springY, [-0.5, 0.5], [25, -25]), in hundredths of
\* a degree.
RotateX == Transform(springY, -50, 50, 2500, -2500)

\* rotateY = useTransform(springX, [-0.5, 0.5], [-25, 25]), in hundredths of
\* a degree.
RotateY == Transform(springX, -50, 50, -2500, 2500)

\* The animate prop of the inner container, from the values a render captured.
\* rotateX and y are motion values (named here) or the constant 0; scale is
\* in hundredths.
InnerAnimate(r) ==
    [rotateX |-> IF ~r.isFlipped /\ (r.isHovered \/ r.isFocused) THEN "rotateX" ELSE "0",
     y       |-> IF ~r.isFlipped /\ (r.isHovered \/ r.isFocused) THEN "levitateY" ELSE "0",
     z       |-> IF ~r.isFlipped /\ r.isHovered THEN 60
                 ELSE IF ~r.isFlipped /\ r.isFocused THEN 100 ELSE 0,
     scale   |-> IF ~r.isFlipped /\ r.isHovered THEN 108
                 ELSE IF ~r.isFlipped /\ r.isFocused THEN 112 ELSE 100]

\* (variant: titles compared without regard to case)
EventUrlMutIgnoreCase(t) ==
    IF t = "Brand-o-Vation" THEN "https://brand-o-vation.vercel.app/"
    ELSE IF t \in {"Ventura", "ventura"} THEN "https://ventura-zeta.vercel.app/"
    ELSE IF t = "The Paradox Protocol" THEN "https://paradox-protocol-theta.vercel.app/"
    ELSE IF t = "Capitalyze" THEN "https://capitalyze.vercel.app/"
    ELSE ""

\* The if-chain of the Register Now handler; "" when no branch matches.
EventUrl(t) ==
    IF t = "Brand-o-Vation" THEN "https://brand-o-vation.vercel.app/"
    ELSE IF t = "Ventura" THEN "https://ventura-zeta.vercel.app/"
    ELSE IF t = "The Paradox Protocol" THEN "https://paradox-protocol-theta.vercel.app/"
    ELSE IF t = "Capitalyze" THEN "https://capitalyze.vercel.app/"
    ELSE ""

----------------------------------------------------------------------------
(* EventCard3D: state machine *)

\* The state after the first render and its effects: nothing hovered or
\* focused, so no interval; no particles, so no frame requested.
CardInit ==
    /\ mounted = TRUE
    /\ title \in Titles
    /\ isFlipped = FALSE
    /\ isFlipping = FALSE
    /\ isFocused = FALSE
    /\ particles = <<>>
    /\ particleIdRef = 0
    /\ animationFrameRef = 0
    /\ rafPending = {}
    /\ rafSeq = 0
    /\ mouseX = 0
    /\ mouseY = 0
    /\ springX = 0
    /\ springY = 0
    /\ rend = [isFlipped |-> FALSE, isFlipping |-> FALSE, isFocused |-> FALSE,
               isHovered |-> FALSE, len |-> 0]
    /\ burstInterval = NoTimer
    /\ flipTimers = <<>>
    /\ pointerInside = FALSE
    /\ cardAnim = "none"
    /\ openedWindows = <<>>
    /\ notices = <<>>
    /\ registerClicks = <<>>
    /\ propCalls = [onHover |-> 0, onLeave |-> 0]
    /\ clicks = 0
    /\ clickAges = <<>>

\* (variant: the interval is set only while hovered)
BurstEffectMutHoverOnly(hovered, focused) ==
    burstInterval' =
        IF hovered = rend.isHovered /\ focused = rend.isFocused
        THEN burstInterval
        ELSE IF hovered THEN BurstIntervalMs
        ELSE NoTimer

\* The effect on [isHovered, isFocused], run by a render that captured
\* hovered and focused: the cleanup of the previous run, then the body.
BurstEffect(hovered, focused) ==
    burstInterval' =
        IF hovered = rend.isHovered /\ focused = rend.isFocused
        THEN burstInterval                     \* deps unchanged: effect skipped
        ELSE IF hovered \/ focused THEN BurstIntervalMs   \* setInterval
        ELSE NoTimer                           \* clearInterval only

\* (variant: the cleanup does not cancel the frame when the list is empty)
ParticleEffectMutNoCancel(len) ==
    IF len = rend.len
    THEN UNCHANGED <<animationFrameRef, rafPending, rafSeq>>
    ELSE IF len > 0
    THEN /\ rafSeq < MaxRafHandles
         /\ rafSeq' = rafSeq + 1
         /\ animationFrameRef' = rafSeq + 1
         /\ rafPending' = (rafPending \ {animationFrameRef}) \cup {rafSeq + 1}
    ELSE UNCHANGED <<animationFrameRef, rafPending, rafSeq>>

\* The effect on [particles.length], run by a render that captured len.
ParticleEffect(len) ==
    IF len = rend.len
    THEN UNCHANGED <<animationFrameRef, rafPending, rafSeq>>
    ELSE IF len > 0
    THEN /\ rafSeq < MaxRafHandles
         /\ rafSeq' = rafSeq + 1
         /\ animationFrameRef' = rafSeq + 1
         /\ rafPending' = (rafPending \ {animationFrameRef}) \cup {rafSeq + 1}
    ELSE /\ rafPending' = rafPending \ {animationFrameRef}
         /\ UNCHANGED <<animationFrameRef, rafSeq>>

\* A render of the card capturing the given values, with the effects whose
\* dependencies changed.
RenderCard(flipped, flipping, focused, hovered, len) ==
    /\ rend' = [isFlipped |-> flipped, isFlipping |-> flipping,
                isFocused |-> focused, isHovered |-> hovered, len |-> len]
    /\ BurstEffect(hovered, focused)
    /\ ParticleEffect(len)

\* createParticleBurst()
CreateParticleBurst ==
    /\ particleIdRef + BurstSize <= MaxParticleId
    /\ particles' = BurstUpdate(particles, particleIdRef)
    /\ particleIdRef' = particleIdRef + BurstSize

\* handleMouseEnter: onHover(), the entrance flourish, the initial burst.
MouseEnter ==
    /\ mounted
    /\ ~pointerInside
    /\ pointerInside' = TRUE
    /\ propCalls' = [propCalls EXCEPT !.onHover = @ + 1]    \* onHover()
    /\ cardAnim' = "enter"
    /\ CreateParticleBurst
    /\ UNCHANGED <<mounted, title, springX, springY, isFlipped, isFlipping, isFocused, animationFrameRef,
                   rafPending, rafSeq, mouseX, mouseY, rend, burstInterval,
                   flipTimers, openedWindows, notices, registerClicks, clicks,
                   clickAges>>
    /\ UNCHANGED sectionVars

\* (variant: the early return does not test isFlipped)
MoveIgnoredMutNever == FALSE

\* The early return of handleMouseMove, !cardRef.current || isFlipped; the
\* ref is never empty while the card is mounted.
MoveIgnored == rend.isFlipped

\* handleMouseMove for a pointer sample p; lucky is Math.random() > 0.95.
MouseMove(p, lucky) ==
    /\ mounted
    /\ pointerInside
    /\ IF MoveIgnored
       THEN UNCHANGED <<mouseX, mouseY, particles, particleIdRef>>
       ELSE /\ mouseX' = p.x
            /\ mouseY' = p.y
            /\ IF rend.isHovered /\ lucky
               THEN CreateParticleBurst
               ELSE UNCHANGED <<particles, particleIdRef>>
    /\ UNCHANGED <<mounted, propCalls, title, springX, springY, isFlipped, isFlipping, isFocused, animationFrameRef,
                   rafPending, rafSeq, rend, burstInterval, flipTimers,
                   pointerInside, cardAnim, openedWindows, notices,
                   registerClicks, clicks,
                   clickAges>>
    /\ UNCHANGED sectionVars

\* (variant: the particles are left to the frame loop)
LeaveParticlesMutKept(prev) == prev

\* The argument of setParticles in handleMouseLeave.
LeaveParticles(prev) == <<>>

\* handleMouseLeave: pointer targets to 0, particles cleared, onLeave(), the
\* reset animation.
MouseLeave ==
    /\ mounted
    /\ pointerInside
    /\ propCalls.onLeave < MaxLeaves
    /\ pointerInside' = FALSE
    /\ mouseX' = 0
    /\ mouseY' = 0
    /\ particles' = LeaveParticles(particles)
    /\ propCalls' = [propCalls EXCEPT !.onLeave = @ + 1]    \* onLeave()
    /\ cardAnim' = "leave"
    /\ UNCHANGED <<mounted, title, springX, springY, isFlipped, isFlipping, isFocused, particleIdRef,
                   animationFrameRef, rafPending, rafSeq, rend, burstInterval,
                   flipTimers, openedWindows, notices, registerClicks, clicks,
                   clickAges>>
    /\ UNCHANGED sectionVars

\* (variant: a click during the lock leaves flipped alone)
ToggledFlippedMutLocked == IF isFlipping THEN rend.isFlipped ELSE ~rend.isFlipped

\* The argument of setIsFlipped in handleCardClick: !isFlipped, read from
\* the render the handler belongs to.
ToggledFlipped == ~rend.isFlipped

\* (variant: a click restarts the one lock timer)
WithFlipTimeoutMutRestart(timers) == <<FlipLockMs>>

\* The pending timeouts after setTimeout(..., 800) in handleCardClick.
WithFlipTimeout(timers) == Append(timers, FlipLockMs)

\* The body of handleCardClick, then the render React makes before the next
\* event.
CardClicked ==
    /\ Len(flipTimers) < MaxFlipTimers
    /\ particleIdRef + ExplosionSize <= MaxParticleId
    /\ isFlipping' = TRUE                         \* setIsFlipping(true)
    /\ isFlipped' = ToggledFlipped                \* setIsFlipped(!isFlipped)
    /\ mouseX' = 0
    /\ mouseY' = 0
    /\ flipTimers' = WithFlipTimeout(flipTimers)
    /\ particles' = ExplosionUpdate(particles, particleIdRef)
    /\ particleIdRef' = particleIdRef + ExplosionSize
    /\ RenderCard(isFlipped', isFlipping', isFocused, rend.isHovered, Len(particles'))
    /\ clicks' = clicks + 1
    /\ clickAges' = Append(clickAges, 0)

\* A click on the card outside the Register Now button: handleCardClick.
HandleCardClick ==
    /\ mounted
    /\ CardClicked
    /\ UNCHANGED <<mounted, propCalls, title, springX, springY, isFocused,
                   pointerInside, cardAnim, openedWindows, notices,
                   registerClicks>>
    /\ UNCHANGED sectionVars

\* The setTimeout callback of handleCardClick.  No cleanup clears the
\* timeout, so it also runs after the card has been unmounted; React drops
\* a state update made on an unmounted component.
FlipTimeout ==
    /\ flipTimers # <<>>
    /\ Head(flipTimers) = 0
    /\ flipTimers' = Tail(flipTimers)
    /\ isFlipping' = IF mounted THEN FALSE ELSE isFlipping   \* setIsFlipping(false)
    /\ UNCHANGED <<mounted, propCalls, title, springX, springY, isFlipped, isFocused, particles, particleIdRef,
                   animationFrameRef, rafPending, rafSeq, mouseX, mouseY, rend,
                   burstInterval, pointerInside, cardAnim, openedWindows,
                   notices, registerClicks, clicks,
                   clickAges>>
    /\ UNCHANGED sectionVars

\* handleFocus, then the render React makes before the next event.
HandleFocus ==
    /\ mounted
    /\ ~isFocused
    /\ isFocused' = TRUE
    /\ cardAnim' = "focus"
    /\ RenderCard(isFlipped, isFlipping, TRUE, rend.isHovered, Len(particles))
    /\ UNCHANGED <<mounted, propCalls, title, springX, springY, isFlipped, isFlipping, particles, particleIdRef,
                   mouseX, mouseY, flipTimers, pointerInside, openedWindows,
                   notices, registerClicks, clicks,
                   clickAges>>
    /\ UNCHANGED sectionVars

\* (variant: blur is treated as the end of a hover and calls onLeave())
HandleBlurMutLeaves ==
    /\ mounted
    /\ isFocused
    /\ isFocused' = FALSE
    /\ propCalls' = [propCalls EXCEPT !.onLeave = @ + 1]
    /\ cardAnim' = "blur"
    /\ RenderCard(isFlipped, isFlipping, FALSE, rend.isHovered, Len(particles))
    /\ UNCHANGED <<mounted, title, springX, springY, isFlipped, isFlipping,
                   particles, particleIdRef, mouseX, mouseY, flipTimers,
                   pointerInside, openedWindows, notices, registerClicks,
                   clicks, clickAges>>
    /\ UNCHANGED sectionVars

\* handleBlur, then the render React makes before the next event.
HandleBlur ==
    /\ mounted
    /\ isFocused
    /\ isFocused' = FALSE
    /\ cardAnim' = "blur"
    /\ RenderCard(isFlipped, isFlipping, FALSE, rend.isHovered, Len(particles))
    /\ UNCHANGED <<mounted, propCalls, title, springX, springY, isFlipped, isFlipping, particles, particleIdRef,
                   mouseX, mouseY, flipTimers, pointerInside, openedWindows,
                   notices, registerClicks, clicks,
                   clickAges>>
    /\ UNCHANGED sectionVars

\* The parent re-renders the card with a new isHovered prop.
ParentHover(h) ==
    /\ mounted
    /\ h # rend.isHovered
    /\ RenderCard(isFlipped, isFlipping, isFocused, h, Len(particles))
    /\ UNCHANGED <<mounted, propCalls, title, springX, springY, isFlipped, isFlipping, isFocused, particles,
                   particleIdRef, mouseX, mouseY, flipTimers, pointerInside,
                   cardAnim, openedWindows, notices, registerClicks, clicks,
                   clickAges>>
    /\ UNCHANGED sectionVars

\* React renders the state updates made outside discrete events.
CardRender ==
    /\ mounted
    /\ \/ rend.isFlipping # isFlipping
       \/ rend.len # Len(particles)
    /\ RenderCard(isFlipped, isFlipping, isFocused, rend.isHovered, Len(particles))
    /\ UNCHANGED <<mounted, propCalls, title, springX, springY, isFlipped, isFlipping, isFocused, particles,
                   particleIdRef, mouseX, mouseY, flipTimers, pointerInside,
                   cardAnim, openedWindows, notices, registerClicks, clicks,
                   clickAges>>
    /\ UNCHANGED sectionVars

\* The setInterval callback of the burst effect.
IntervalTick ==
    /\ mounted
    /\ burstInterval = 0
    /\ burstInterval' = BurstIntervalMs
    /\ CreateParticleBurst
    /\ UNCHANGED <<mounted, propCalls, title, springX, springY, isFlipped, isFlipping, isFocused, animationFrameRef,
                   rafPending, rafSeq, mouseX, mouseY, rend, flipTimers,
                   pointerInside, cardAnim, openedWindows, notices,
                   registerClicks, clicks,
                   clickAges>>
    /\ UNCHANGED sectionVars

\* animateParticles, the frame callback with handle h.
AnimateParticles(h) ==
    /\ mounted
    /\ h \in rafPending
    /\ rafSeq < MaxRafHandles
    /\ particles' = FrameUpdate(particles)
    /\ rafSeq' = rafSeq + 1
    /\ animationFrameRef' = rafSeq + 1
    /\ rafPending' = (rafPending \ {h}) \cup {rafSeq + 1}
    /\ UNCHANGED <<mounted, propCalls, title, springX, springY, isFlipped, isFlipping, isFocused, particleIdRef,
                   mouseX, mouseY, rend, burstInterval, flipTimers,
                   pointerInside, cardAnim, openedWindows, notices,
                   registerClicks, clicks,
                   clickAges>>
    /\ UNCHANGED sectionVars

\* The card is removed from the tree: React runs the cleanup of each effect's
\* last run, clearInterval for the burst effect and cancelAnimationFrame of
\* animationFrameRef.current for the particle effect.
Unmount ==
    /\ mounted
    /\ mounted' = FALSE
    /\ burstInterval' = NoTimer
    /\ rafPending' = rafPending \ {animationFrameRef}
    /\ UNCHANGED <<propCalls, title, springX, springY, isFlipped, isFlipping, isFocused, particles,
                   particleIdRef, animationFrameRef, rafSeq, mouseX, mouseY,
                   rend, flipTimers, pointerInside, cardAnim, openedWindows,
                   notices, registerClicks, clicks, clickAges>>
    /\ UNCHANGED sectionVars

\* The springs move: the smoothed values take new values on their way to
\* the pointer targets, overshoot included.
SpringStep(v, w) ==
    /\ mounted
    /\ <<v, w>> # <<springX, springY>>
    /\ springX' = v
    /\ springY' = w
    /\ UNCHANGED <<mounted, propCalls, title, isFlipped, isFlipping, isFocused,
                   particles, particleIdRef, animationFrameRef, rafPending,
                   rafSeq, mouseX, mouseY, rend, burstInterval, flipTimers,
                   pointerInside, cardAnim, openedWindows, notices,
                   registerClicks, clicks, clickAges>>
    /\ UNCHANGED sectionVars

\* The pending timers' remaining times.
TimerRems ==
    {flipTimers[i] : i \in 1..Len(flipTimers)}
        \cup (IF burstInterval = NoTimer THEN {} ELSE {burstInterval})

\* The click history d ms later: the clicks still within FlipLockMs.
RECURSIVE Aged(_, _)
Aged(ages, d) ==
    IF ages = <<>> THEN <<>>
    ELSE IF Head(ages) + d <= FlipLockMs
         THEN <<Head(ages) + d>> \o Aged(Tail(ages), d)
         ELSE Aged(Tail(ages), d)

\* The clock advances by d ms; no timer is passed over before it has run.
Advance(d) ==
    /\ TimerRems # {} \/ clickAges # <<>>
    /\ \A r \in TimerRems : d <= r
    /\ flipTimers' = [i \in 1..Len(flipTimers) |-> flipTimers[i] - d]
    /\ burstInterval' = IF burstInterval = NoTimer THEN NoTimer ELSE burstInterval - d
    /\ clickAges' = Aged(clickAges, d)
    /\ UNCHANGED <<mounted, propCalls, title, springX, springY, isFlipped, isFlipping, isFocused, particles,
                   particleIdRef, animationFrameRef, rafPending, rafSeq, mouseX,
                   mouseY, rend, pointerInside, cardAnim, openedWindows,
                   notices, registerClicks, clicks>>
    /\ UNCHANGED sectionVars

\* window.open(url, target, features): the browsing context it creates and
\* whether a handle to it is returned; with "noopener" the context has no
\* opener and the call returns null.
WindowOpen(url, target, features) ==
    [url       |-> url,
     target    |-> target,
     hasOpener |-> "noopener" \notin features,
     returned  |-> "noopener" \notin features]

\* (variant: e.stopPropagation() is called after the lookup, which the
\* early return for an unmapped title skips)
RegisterStopsPropagationMutAfterLookup(t) == EventUrl(t) # ""

\* Whether the Register Now handler called e.stopPropagation() for a card
\* with title t: it is the handler's first statement.
RegisterStopsPropagation(t) == TRUE

\* A click on the Register Now button: its onClick, then, unless the
\* propagation was stopped, the onClick of the card the event bubbles to.
Register ==
    /\ mounted
    /\ Len(registerClicks) < MaxRegisterClicks
    /\ registerClicks' = Append(registerClicks, isFlipped)
    /\ IF RegisterStopsPropagation(title)
       THEN UNCHANGED <<isFlipped, isFlipping, particles, particleIdRef,
                        animationFrameRef, rafPending, rafSeq, mouseX, mouseY,
                        rend, burstInterval, flipTimers, clicks, clickAges>>
       ELSE CardClicked
    /\ IF EventUrl(title) = ""
       THEN /\ notices' = Append(notices, <<"Registration for ", title, " coming soon!">>)
            /\ UNCHANGED openedWindows
       ELSE /\ LET w == WindowOpen(EventUrl(title), "_blank",
                                     {"noopener", "noreferrer"})
               IN openedWindows' = Append(openedWindows,
                      [url |-> w.url, target |-> w.target,
                       \* if (newWindow) newWindow.opener = null
                       hasOpener |-> IF w.returned THEN FALSE ELSE w.hasOpener])
            /\ UNCHANGED notices
    /\ UNCHANGED <<mounted, propCalls, title, springX, springY, isFocused,
                   pointerInside, cardAnim>>
    /\ UNCHANGED sectionVars

----------------------------------------------------------------------------
(* Specifications *)

SectionNext ==
    \/ Scroll
    \/ ObserverCallback
    \/ SectionFrame
    \/ SectionRender
    \/ ParentRerender
    \/ SectionEffect
    \/ SectionUnmount

InitSection ==
    /\ SectionInit
    /\ CardInit /\ title = "Brand-o-Vation"

\* AnimatedSection on its own, beside an idle card.
SpecSection == InitSection /\ [][SectionNext]_vars

CardNext ==
    \/ MouseEnter
    \/ \E p \in PointerSamples, lucky \in BOOLEAN : MouseMove(p, lucky)
    \/ MouseLeave
    \/ HandleCardClick
    \/ FlipTimeout
    \/ HandleFocus
    \/ HandleBlur
    \/ \E h \in BOOLEAN : ParentHover(h)
    \/ CardRender
    \/ IntervalTick
    \/ \E h \in rafPending : AnimateParticles(h)
    \/ \E d \in TimeSteps : Advance(d)
    \/ Unmount

Init ==
    /\ CardInit /\ title = "Brand-o-Vation"
    /\ SectionInit /\ ~prefersReducedMotion /\ ~intersecting

Next == CardNext

\* EventCard3D on its own, beside a section that has not run its effect.
Spec == Init /\ [][Next]_vars

RegisterNext ==
    \/ Register
    \/ HandleCardClick
    \/ FlipTimeout
    \/ HandleFocus
    \/ HandleBlur
    \/ CardRender
    \/ \E d \in TimeSteps : Advance(d)

InitRegister ==
    /\ CardInit
    /\ SectionInit /\ ~prefersReducedMotion /\ ~intersecting

\* The Register Now button of a card with any of the titles, with the flip
\* that brings the back face to the front.
SpecRegister == InitRegister /\ [][RegisterNext]_vars

\* The card k frames after the pointer entered it and the burst of
\* handleMouseEnter was rendered, with nothing else done to it: the particle
\* effect has run for the current length and one frame is pending.  Frame
\* handles are counted from this state.
CardAfterFrames(k) ==
    /\ mounted = TRUE
    /\ title = "Brand-o-Vation"
    /\ isFlipped = FALSE
    /\ isFlipping = FALSE
    /\ isFocused = FALSE
    /\ particles = FramesLater(NewParticles(0), k)
    /\ particleIdRef = BurstSize
    /\ animationFrameRef = 1
    /\ rafPending = {1}
    /\ rafSeq = 1
    /\ mouseX = 0
    /\ mouseY = 0
    /\ springX = 0
    /\ springY = 0
    /\ rend = [isFlipped |-> FALSE, isFlipping |-> FALSE, isFocused |-> FALSE,
               isHovered |-> FALSE, len |-> Len(FramesLater(NewParticles(0), k))]
    /\ burstInterval = NoTimer
    /\ flipTimers = <<>>
    /\ pointerInside = TRUE
    /\ cardAnim = "enter"
    /\ openedWindows = <<>>
    /\ notices = <<>>
    /\ registerClicks = <<>>
    /\ propCalls = [onHover |-> 1, onLeave |-> 0]
    /\ clicks = 0
    /\ clickAges = <<>>

ParticleNext ==
    \/ \E h \in rafPending : AnimateParticles(h)
    \/ CardRender
    \/ \E p \in PointerSamples, lucky \in BOOLEAN : MouseMove(p, lucky)
    \/ MouseLeave
    \/ MouseEnter
    \/ \E h \in BOOLEAN : ParentHover(h)
    \/ HandleCardClick
    \/ Unmount

InitParticles ==
    /\ SectionInit /\ ~prefersReducedMotion /\ ~intersecting
    /\ \E k \in AgedFrames : CardAfterFrames(k)

\* The particle loop of a card whose particles are about to leave the bounds.
SpecParticles == InitParticles /\ [][ParticleNext]_vars

TiltNext ==
    \/ MouseEnter
    \/ \E p \in PointerSamples, lucky \in BOOLEAN : MouseMove(p, lucky)
    \/ MouseLeave
    \/ \E v \in SpringValues, w \in SpringValues : SpringStep(v, w)

InitTilt ==
    /\ CardInit /\ title = "Brand-o-Vation"
    /\ SectionInit /\ ~prefersReducedMotion /\ ~intersecting

\* The pointer tilt of the card: pointer targets, springs, derived rotations.
SpecTilt == InitTilt /\ [][TiltNext]_vars

----------------------------------------------------------------------------
(* Claims *)

\* C1: in every reachable state the card's particle list holds at most 20
\* particles, whatever interleaving of bursts, clicks, frames and hover-leave.
C1_ParticlesAtMostLimit == Len(particles) <= ParticleLimit

\* C2: with reduced motion off, controls.start('visible') is started at most
\* once per mount (and so exactly once after the first intersection), for
\* every sequence of observations and re-renders.
C2_VisibleStartedOnce == ~prefersReducedMotion => visibleStarts <= 1

\* C3: the latch hasAnimated starts false and, once true, no step sets it
\* back to false.
C3_LatchMonotone ==
    /\ ~hasAnimated
    /\ [][hasAnimated => hasAnimated']_vars

\* a scroll-out has been delivered to the observer created after the latch
C3_Witness ==
    /\ hasAnimated /\ rHasAnimated
    /\ obsConnected /\ obsHasAnimated
    /\ ~intersecting /\ entryQueue = <<>>
    /\ observersCreated >= 2

\* C4: every click toggles flipped exactly once, also while flipping is true:
\* after n clicks flipped is true exactly when n is odd.
C4_ClickToggles ==
    /\ [](isFlipped <=> (clicks % 2 = 1))
    /\ [][clicks' = clicks + 1 => isFlipped' = ~isFlipped]_vars

\* a second click handled while the first flip's lock is still set
C4_Witness == clicks = 2 /\ ~isFlipped /\ Len(flipTimers) = 2 /\ isFlipping

\* C5: a click sets flipping immediately, and 800 ms after a click (once the
\* timer due at that instant has run and before any click made at that very
\* instant) flipping is false on the mounted card, whatever clicks fell
\* inside the interval.
C5_LockReleasedAfterFlipLockMs ==
    /\ [][clicks' = clicks + 1 => isFlipping']_vars
    /\ []((/\ mounted
           /\ \E i \in 1..Len(clickAges) : clickAges[i] = FlipLockMs
           /\ \A i \in 1..Len(clickAges) : clickAges[i] > 0
           /\ \A i \in 1..Len(flipTimers) : flipTimers[i] > 0)
          => ~isFlipping)

\* 800 ms after a first click, with a second click 400 ms old still pending
C5_Witness ==
    /\ clickAges = <<FlipLockMs, FlipLockMs \div 2>>
    /\ flipTimers = <<FlipLockMs \div 2>>
    /\ ~isFlipping

\* C6: a click handled while flipping is true neither toggles flipped nor
\* starts another flip transition.
C6_NoSecondFlipWhileFlipping ==
    [][(isFlipping /\ clicks' = clicks + 1)
        => (isFlipped' = isFlipped /\ flipTimers' = flipTimers)]_vars

\* C7: whenever the card is flipped the pointer targets are 0 (so a
\* pointer-move has left them unchanged) and the inner container's animate
\* target is the neutral one.
C7_TiltSuppressedWhenFlipped ==
    isFlipped =>
        /\ mouseX = 0 /\ mouseY = 0
        /\ InnerAnimate(rend) = [rotateX |-> "0", y |-> "0", z |-> 0, scale |-> 100]

\* flipped while the pointer is over the hovered, focused card
C7_Witness ==
    /\ isFlipped /\ pointerInside /\ rend.isHovered /\ rend.isFocused
    /\ ~isFlipping /\ flipTimers = <<>>

\* C8: with reduced motion on, no intersection observer is ever created and
\* the first run of the effect starts 'visible' whatever the intersection.
C8_ReducedMotionSkipsObserver ==
    prefersReducedMotion =>
        /\ observersCreated = 0 /\ ~obsConnected /\ entryQueue = <<>>
        /\ visibleStarts = 0 => effectDue

\* started at mount while the element is outside the viewport
C8_Witness ==
    /\ prefersReducedMotion /\ ~intersecting
    /\ visibleStarts = 1 /\ ~effectDue /\ variant = "visible"

\* C9: with reduced motion on, no reachable state of the section has the
\* 'hidden' variant applied.
C9_NeverHiddenWhenReducedMotion == prefersReducedMotion => variant # "hidden"

\* The title -> URL table of the registration contract.
C10_Url(t) ==
    CASE t = "Brand-o-Vation" -> "https://brand-o-vation.vercel.app/"
      [] t = "Ventura" -> "https://ventura-zeta.vercel.app/"
      [] t = "The Paradox Protocol" -> "https://paradox-protocol-theta.vercel.app/"
      [] t = "Capitalyze" -> "https://capitalyze.vercel.app/"

\* C10: every Register click on a mapped title opens that title's URL in a
\* new browsing context without opener and shows no notice; on any other
\* title it shows the notice and opens no window.
C10_RegisterLookup ==
    /\ Len(openedWindows) + Len(notices) = Len(registerClicks)
    /\ IF title \in {"Brand-o-Vation", "Ventura", "The Paradox Protocol", "Capitalyze"}
       THEN /\ notices = <<>>
            /\ \A i \in 1..Len(openedWindows) :
                  openedWindows[i] = [url |-> C10_Url(title), target |-> "_blank",
                                      hasOpener |-> FALSE]
       ELSE /\ openedWindows = <<>>
            /\ \A i \in 1..Len(notices) :
                  notices[i] = <<"Registration for ", title, " coming soon!">>

\* two Register clicks on the flipped Brand-o-Vation card
C10_Witness ==
    /\ title = "Brand-o-Vation" /\ isFlipped /\ registerClicks = <<TRUE, TRUE>>
    /\ Len(openedWindows) = 2
    /\ openedWindows[1].url = "https://brand-o-vation.vercel.app/"

\* C11: onAnimationStart is invoked at most once per mount of the section,
\* whatever the observer callbacks deliver and whenever they arrive.
C11_OnStartAtMostOnce == onStartCalls <= 1

\* C12: once the card is unmounted no timer or frame callback of the card is
\* left pending (the burst interval, the particle frame and the flip-lock
\* timeout are all cancelled), and so none runs afterwards.
C12_NoCallbackAfterUnmount ==
    /\ [](~mounted => /\ burstInterval = NoTimer
                      /\ rafPending = {}
                      /\ flipTimers = <<>>)
    /\ [][~mounted => Len(flipTimers') = Len(flipTimers)]_vars

\* C13: while the card is mounted and fewer than 800 ms have elapsed since
\* the most recent click, flipping is true (the lock covers the whole flip,
\* also when clicks overlap).
C13_LockCoversFlip ==
    (/\ mounted
     /\ clickAges # <<>>
     /\ clickAges[Len(clickAges)] < FlipLockMs) => isFlipping

\* C14: with reduced motion off, one mount of the section constructs exactly
\* one intersection observer (none before the effect has run, one ever
\* after), and the observer is disconnected once the section is unmounted.
C14_OneObserverPerMount ==
    ~prefersReducedMotion =>
        /\ observersCreated = IF observersCreated = 0 /\ effectDue THEN 0 ELSE 1
        /\ ~sectionMounted => ~obsConnected

\* C15: at most one frame callback of the card is pending at a time, and
\* once the card's effects have run for the current particle list a frame
\* is pending only if the list is not empty (an empty list leaves no frame
\* pending: the loop has stopped).
C15_FrameLoopSelfTerminates ==
    /\ Cardinality(rafPending) <= 1
    /\ (rend.len = Len(particles) /\ particles = <<>>) => rafPending = {}

\* the last particle was removed by a frame (the pointer never left) and the
\* render that followed has run the particle effect
C15_Witness ==
    /\ mounted /\ pointerInside /\ particleIdRef = BurstSize
    /\ particles = <<>> /\ rend.len = 0
    /\ rafSeq >= 2 /\ rafPending = {}

\* C16: an integration step keeps exactly the particles whose updated
\* position (x + vx, y + vy) satisfies -50 < x < 450 and y < 600, at that
\* updated position; so every particle it leaves satisfies the bound.
C16_StepKeepsExactlyInBounds ==
    [][(rafSeq' # rafSeq /\ rend' = rend) =>
        /\ \A j \in 1..Len(particles') :
              /\ Px(-50) < particles'[j].x /\ particles'[j].x < Px(450)
              /\ particles'[j].y < Px(600)
              /\ \E i \in 1..Len(particles) :
                    /\ particles[i].id = particles'[j].id
                    /\ particles'[j].x = particles[i].x + particles[i].vx
                    /\ particles'[j].y = particles[i].y + particles[i].vy
        /\ \A i \in 1..Len(particles) :
              (\E j \in 1..Len(particles') : particles'[j].id = particles[i].id)
              <=> (/\ Px(-50) < particles[i].x + particles[i].vx
                   /\ particles[i].x + particles[i].vx < Px(450)
                   /\ particles[i].y + particles[i].vy < Px(600))]_vars

\* a frame has just removed the first particle of the burst, whose updated
\* x is exactly -50, and kept the other two
C16_Witness ==
    /\ mounted /\ particleIdRef = BurstSize /\ rend.len = 3
    /\ Len(particles) = 2 /\ particles[1].id = 1 /\ particles[2].id = 2

\* C17: with reduced motion off, the step that invokes onAnimationStart (the
\* observer callback) latches hasAnimated and requests a frame without
\* starting 'visible' itself; 'visible' is started only by a step that runs a
\* requested frame, after the latch and after its onAnimationStart call.
C17_StartOrder ==
    /\ [][onStartCalls' > onStartCalls =>
            /\ hasAnimated'
            /\ sectionRaf' > sectionRaf
            /\ visibleStarts' = visibleStarts]_vars
    /\ [][(~prefersReducedMotion /\ visibleStarts' > visibleStarts) =>
            /\ sectionRaf' = sectionRaf - 1
            /\ onStartCalls' = onStartCalls
            /\ onStartCalls > visibleStarts
            /\ hasAnimated]_vars

\* the first intersecting entry has been handled and its frame has not run
C17_Witness ==
    /\ ~prefersReducedMotion /\ sectionMounted
    /\ hasAnimated /\ onStartCalls = 1
    /\ sectionRaf = 1 /\ visibleStarts = 0 /\ variant = "hidden"

\* C18: while the card is mounted, an 800 ms burst interval is set exactly
\* when the card is hovered or focused, it is due within 800 ms, and the
\* interval's callback adds a burst only while the card is hovered or focused.
C18_IntervalIffHoveredOrFocused ==
    /\ [](mounted =>
            /\ (burstInterval # NoTimer) <=> (rend.isHovered \/ isFocused)
            /\ burstInterval # NoTimer => burstInterval \in 0..BurstIntervalMs)
    /\ [][(/\ burstInterval = 0 /\ burstInterval' = BurstIntervalMs
           /\ particleIdRef' = particleIdRef + BurstSize)
          => (rend.isHovered \/ isFocused)]_vars

\* the interval has added a burst to a card that is focused and not hovered
C18_Witness ==
    /\ mounted /\ isFocused /\ ~rend.isHovered /\ ~pointerInside
    /\ Len(particles) = BurstSize /\ particleIdRef = BurstSize
    /\ burstInterval = BurstIntervalMs /\ clicks = 0

\* C19: a hover-leave sets both pointer targets to 0, empties the particle
\* list and invokes onLeave exactly once, whatever they held before, and
\* leaves flipped, flipping and isFocused as they were.
C19_LeaveResets ==
    [][(pointerInside /\ ~pointerInside') =>
        /\ mouseX' = 0 /\ mouseY' = 0
        /\ particles' = <<>>
        /\ propCalls'.onLeave = propCalls.onLeave + 1
        /\ propCalls'.onHover = propCalls.onHover
        /\ isFlipped' = isFlipped
        /\ isFlipping' = isFlipping
        /\ isFocused' = isFocused]_vars

\* the pointer has left a focused card that held particles (the render of
\* the emptied list is still to come)
C19_Witness ==
    /\ mounted /\ ~pointerInside /\ cardAnim = "leave"
    /\ propCalls = [onHover |-> 1, onLeave |-> 1]
    /\ particles = <<>> /\ rend.len > 0
    /\ mouseX = 0 /\ mouseY = 0
    /\ isFocused /\ ~isFlipped

\* The smaller of two numbers.
C20_Min(a, b) == IF a <= b THEN a ELSE b

\* C20: a burst (a step that draws exactly 3 ids) applied to a list of size
\* n leaves min(n + 3, 20) particles; the last 3 are the new ones, with the
\* 3 ids drawn, and the ones before them are the newest of the old list in
\* their old order, so that what is dropped is the front of the old list.
C20_BurstKeepsNewest ==
    [][particleIdRef' = particleIdRef + BurstSize =>
        LET n    == Len(particles)
            m    == C20_Min(n + BurstSize, ParticleLimit)
            kept == m - BurstSize
        IN /\ Len(particles') = m
           /\ \A i \in 1..BurstSize :
                 particles'[kept + i].id = particleIdRef + i - 1
           /\ \A j \in 1..kept : particles'[j] = particles[n - kept + j]]_vars

\* a burst has been applied to a list of 21 particles (two bursts and a flip
\* explosion) and has dropped its four oldest
C20_Witness ==
    /\ Len(particles) = ParticleLimit
    /\ particleIdRef = 2 * BurstSize + ExplosionSize + BurstSize
    /\ particles[1].id = 4
    /\ particles[ParticleLimit].id = particleIdRef - 1
    /\ clicks = 1

\* C21: for every smoothed pointer value, rotateX and rotateY lie within
\* [-25, 25] degrees: inside the input domain [-0.5, 0.5] they are the linear
\* interpolation (-50 and +50 degrees per unit), outside it the value of the
\* nearer endpoint.
C21_RotationClamped ==
    /\ RotateX \in -2500..2500
    /\ RotateY \in -2500..2500
    /\ RotateX = IF springY <= -50 THEN 2500
                 ELSE IF springY >= 50 THEN -2500 ELSE -50 * springY
    /\ RotateY = IF springX <= -50 THEN -2500
                 ELSE IF springX >= 50 THEN 2500 ELSE 50 * springX

\* both smoothed values have overshot the edge of the card, at opposite ends
C21_Witness ==
    /\ springX = -MaxSpring /\ springY = MaxSpring
    /\ RotateX = -2500 /\ RotateY = -2500
    /\ pointerInside

\* C22: the ids of the live particles increase strictly along the list (so
\* they are pairwise distinct) and lie below the counter; the counter never
\* decreases and every particle a step adds carries an id at or above the
\* counter's value before the step, so no id is given out twice.
C22_IdsMonotonic ==
    /\ [](\A i, j \in 1..Len(particles) :
             i < j => particles[i].id < particles[j].id)
    /\ [](\A i \in 1..Len(particles) : particles[i].id < particleIdRef)
    /\ [][particleIdRef' >= particleIdRef]_vars
    /\ [][\A j \in 1..Len(particles') :
             \/ \E i \in 1..Len(particles) : particles[i].id = particles'[j].id
             \/ particles'[j].id >= particleIdRef]_vars

\* a frame has removed the particle with id 0 and a flip explosion has then
\* been appended to the two that were left
C22_Witness ==
    /\ mounted /\ clicks = 1 /\ rafSeq >= 3
    /\ Len(particles) = 2 + ExplosionSize
    /\ particles[1].id = 1
    /\ particles[Len(particles)].id = BurstSize + ExplosionSize - 1
    /\ particleIdRef = BurstSize + ExplosionSize

\* C23: a step that changes isFocused (focus or blur) changes neither
\* flipped, flipping, the particle list, the pointer targets nor the hover
\* state, and calls neither onHover nor onLeave; a step that changes the
\* hover state (pointer enter or leave, or the isHovered prop) leaves
\* isFocused as it was.
C23_FocusIndependentOfHover ==
    /\ [][isFocused' # isFocused =>
            /\ isFlipped' = isFlipped /\ isFlipping' = isFlipping
            /\ particles' = particles
            /\ mouseX' = mouseX /\ mouseY' = mouseY
            /\ propCalls' = propCalls
            /\ pointerInside' = pointerInside
            /\ rend'.isHovered = rend.isHovered]_vars
    /\ [][(pointerInside' # pointerInside \/ rend'.isHovered # rend.isHovered)
            => isFocused' = isFocused]_vars

\* the card is hovered (pointer inside, isHovered prop) and focused at once
C23_Witness ==
    /\ mounted /\ pointerInside /\ rend.isHovered
    /\ isFocused /\ rend.isFocused /\ cardAnim = "focus"
    /\ propCalls = [onHover |-> 1, onLeave |-> 0]
    /\ particles # <<>> /\ mouseX # 0

\* C24: a click on Register Now, whatever the title, leaves flipped,
\* flipping, the particle list and the pointer targets as they were, starts
\* no flip-lock timer and is not counted as a click on the card.
C24_RegisterNeverFlips ==
    [][Len(registerClicks') = Len(registerClicks) + 1 =>
        /\ isFlipped' = isFlipped /\ isFlipping' = isFlipping
        /\ particles' = particles
        /\ mouseX' = mouseX /\ mouseY' = mouseY
        /\ flipTimers' = flipTimers
        /\ clicks' = clicks]_vars

\* Register Now was clicked on the back face of a card with an unmapped title
\* while the flip that showed it was still in progress
C24_Witness ==
    /\ title = "Hackathon" /\ isFlipped /\ isFlipping
    /\ clicks = 1 /\ Len(flipTimers) = 1
    /\ registerClicks = <<TRUE>> /\ Len(notices) = 1
    /\ Len(particles) = ExplosionSize

====
